---- MODULE Spec2Model ----
(***************************************************************************)
(* Model of src/server.js: the fantasy-football dashboard back end.        *)
(*                                                                         *)
(* Text is modelled as a sequence of one-character strings, so that        *)
(* parseInt and Number.prototype.toString are computed, not assumed.       *)
(* Points are integers (tenths of a point).  Pass-through fields that no   *)
(* rule reads (losses, ties, pointsAgainst, defaultPosition, proTeam,      *)
(* totalPoints) are left out of the records.                               *)
(***************************************************************************)
EXTENDS Integers, Sequences, FiniteSets, TLC

VARIABLES
    teamsData,  \* the ownership registry loaded at startup (line 17)
    req,        \* the request being served: kind and route parameters
    pc,         \* position of the route handler
    calls,      \* per client and call site: state of the provider call, times issued
    result,     \* per client and call site: value the provider returned
    error,      \* per client and call site: message of the provider's rejection
    ld,         \* per client: state of the getLeagueData invocation
    ldData,     \* per client: value getLeagueData resolved with
    gm,         \* per client: state of the getMatchups invocation
    gmData,     \* per client: value getMatchups resolved with
    resp,       \* responses sent on res, in order
    pin,        \* input of the transformation under check (transformation specs)
    pout,       \* its output
    pphase      \* "input", then the name of the transformation applied

vars == <<teamsData, req, pc, calls, result, error, ld, ldData, gm, gmData,
          resp, pin, pout, pphase>>

reqVars == <<req, pc, calls, result, error, ld, ldData, gm, gmData, resp>>

pureVars == <<pin, pout, pphase>>

----------------------------------------------------------------------------
(* Bounds *)

MaxTeams == 3

MaxRoster == 3

MaxIdLen == 2

----------------------------------------------------------------------------
(* Text and numbers *)

Digits == <<"0", "1", "2", "3", "4", "5", "6", "7", "8", "9">>

HexDigits == Digits \o <<"a", "b", "c", "d", "e", "f">>

RECURSIVE NatToString(_)
NatToString(n) ==
    IF n < 10 THEN <<Digits[n + 1]>>
    ELSE Append(NatToString(n \div 10), Digits[(n % 10) + 1])

\* Number.prototype.toString() of an integer
NumberToString(n) == IF n < 0 THEN <<"-">> \o NatToString(-n) ELSE NatToString(n)

\* String.prototype.toString() returns the string itself
StringToString(s) == s

NaN == [nan |-> TRUE, val |-> 0]

Num(n) == [nan |-> FALSE, val |-> n]

IsWhiteSpace(c) == c \in {" ", "\t", "\n"}

RECURSIVE TrimStart(_)
TrimStart(s) ==
    IF s # <<>> /\ IsWhiteSpace(Head(s)) THEN TrimStart(Tail(s)) ELSE s

\* value of character c as a digit of the radix, -1 when it is none
DigitValue(c, radix) ==
    LET lc == CASE c = "A" -> "a" [] c = "B" -> "b" [] c = "C" -> "c"
                [] c = "D" -> "d" [] c = "E" -> "e" [] c = "F" -> "f"
                [] OTHER -> c
        hits == {i \in 1..radix : HexDigits[i] = lc}
    IN IF hits = {} THEN -1 ELSE (CHOOSE i \in hits : TRUE) - 1

\* accumulates the longest prefix of digits; seen: a digit was consumed
RECURSIVE ParseDigits(_, _, _, _)
ParseDigits(s, radix, acc, seen) ==
    IF s = <<>> \/ DigitValue(Head(s), radix) < 0
    THEN [seen |-> seen, val |-> acc]
    ELSE ParseDigits(Tail(s), radix, acc * radix + DigitValue(Head(s), radix), TRUE)

\* parseInt(string) with no radix argument
ParseInt(str) ==
    LET t == TrimStart(str)
        neg == t # <<>> /\ Head(t) = "-"
        u == IF t # <<>> /\ Head(t) \in {"-", "+"} THEN Tail(t) ELSE t
        hex == Len(u) >= 2 /\ u[1] = "0" /\ u[2] \in {"x", "X"}
        body == IF hex THEN Tail(Tail(u)) ELSE u
        p == ParseDigits(body, IF hex THEN 16 ELSE 10, 0, FALSE)
    IN IF ~p.seen THEN NaN
       ELSE Num(IF neg THEN -p.val ELSE p.val)

\* n === parseInt(...) for a number n that is not NaN
StrictEquals(n, parsed) == ~parsed.nan /\ parsed.val = n

----------------------------------------------------------------------------
(* Array.prototype.sort: stable, ordered by the comparator's sign *)

StandingsCompareWinsOnly(a, b) == b.wins - a.wins

\* lines 71-74
StandingsCompare(a, b) ==
    IF b.wins # a.wins THEN b.wins - a.wins ELSE b.points - a.points

\* lines 192-195 and 261-264, with the "|| 99" of lines 206 and 276
PositionOrder(slot) ==
    CASE slot = "QB" -> 1
      [] slot = "RB" -> 2
      [] slot = "WR" -> 3
      [] slot = "TE" -> 4
      [] slot = "FLEX" -> 5
      [] slot = "RB/WR/TE" -> 5
      [] slot = "D/ST" -> 6
      [] slot = "K" -> 7
      [] slot = "Bench" -> 99
      [] slot = "IR" -> 100
      [] OTHER -> 99

RosterCompareNoPartition(a, b) ==
    PositionOrder(a.slotPosition) - PositionOrder(b.slotPosition)

\* lines 203-207
RosterCompare(a, b) ==
    IF a.isStarter /\ ~b.isStarter THEN -1
    ELSE IF ~a.isStarter /\ b.isStarter THEN 1
    ELSE PositionOrder(a.slotPosition) - PositionOrder(b.slotPosition)

\* line 276
MatchupRosterCompare(a, b) == PositionOrder(a.position) - PositionOrder(b.position)

Compare(cmp, a, b) ==
    CASE cmp = "standings" -> StandingsCompare(a, b)
      [] cmp = "roster" -> RosterCompare(a, b)
      [] cmp = "matchup" -> MatchupRosterCompare(a, b)

RECURSIVE InsertStable(_, _, _)
InsertStable(cmp, sorted, x) ==
    IF sorted = <<>> THEN <<x>>
    ELSE IF Compare(cmp, Head(sorted), x) > 0 THEN <<x>> \o sorted
    ELSE <<Head(sorted)>> \o InsertStable(cmp, Tail(sorted), x)

RECURSIVE ArraySort(_, _)
ArraySort(cmp, arr) ==
    IF arr = <<>> THEN <<>>
    ELSE InsertStable(cmp, ArraySort(cmp, SubSeq(arr, 1, Len(arr) - 1)), arr[Len(arr)])

----------------------------------------------------------------------------
(* Ownership registry *)

Divisions == {"green", "white"}

\* teamsData[division]?.[key]: <<>> when undefined, <<entry>> otherwise
OwnerInfo(division, key) ==
    IF division \in DOMAIN teamsData /\ key \in DOMAIN teamsData[division]
    THEN <<teamsData[division][key]>>
    ELSE <<>>

\* ownerInfo?.owner || ''
OwnerOf(ownerInfo) == IF ownerInfo = <<>> THEN "" ELSE ownerInfo[1].owner

ChampionshipsUnfiltered(ownerInfo) ==
    IF ownerInfo = <<>> THEN <<>> ELSE ownerInfo[1].wins

\* ownerInfo?.wins?.filter(year => year !== '') || []
ChampionshipsOf(ownerInfo) ==
    IF ownerInfo = <<>> THEN <<>>
    ELSE LET NotEmpty(year) == year # "" IN SelectSeq(ownerInfo[1].wins, NotEmpty)

----------------------------------------------------------------------------
(* Standings Builder: getLeagueData, lines 55-74 *)

Standing(division, team) ==
    LET ownerInfo == OwnerInfo(division, NumberToString(team.id))
    IN [id |-> team.id, name |-> team.name,
        owner |-> OwnerOf(ownerInfo),
        championships |-> ChampionshipsOf(ownerInfo),
        wins |-> team.wins, points |-> team.points]

Standings(division, teams) ==
    ArraySort("standings", [i \in 1..Len(teams) |-> Standing(division, teams[i])])

----------------------------------------------------------------------------
(* Roster Formatter: lines 197-207 *)

IsStarterSlot(slot) == slot # "Bench" /\ slot # "IR"

RosterEntry(player) ==
    [name |-> player.fullName,
     isStarter |-> IsStarterSlot(player.rosteredPosition),
     slotPosition |-> player.rosteredPosition]

FormattedRoster(roster) ==
    ArraySort("roster", [i \in 1..Len(roster) |-> RosterEntry(roster[i])])

----------------------------------------------------------------------------
(* Matchup Detail Formatter: formatRoster, lines 266-277 *)

RECURSIVE SumValues(_)
SumValues(values) ==
    IF values = <<>> THEN 0
    ELSE SumValues(SubSeq(values, 1, Len(values) - 1)) + values[Len(values)]

\* lines 273-274; the breakdown is <<>> when absent, <<values>> when present
Projected(player) ==
    IF player.projectedPointBreakdown = <<>> THEN 0
    ELSE SumValues(player.projectedPointBreakdown[1])

KeepsAllButBench(player) == player.rosteredPosition # "Bench"

\* line 268
KeptInDetail(player) ==
    player.rosteredPosition # "Bench" /\ player.rosteredPosition # "IR"

DetailEntry(player) ==
    [name |-> player.fullName,
     position |-> player.rosteredPosition,
     projected |-> Projected(player)]

FormatRoster(roster) ==
    LET kept == SelectSeq(roster, KeptInDetail)
    IN ArraySort("matchup", [i \in 1..Len(kept) |-> DetailEntry(kept[i])])

----------------------------------------------------------------------------
(* Values the provider and the registry file can hold *)

TeamIds == 1..MaxTeams

WinsValues == {7, 8}

PointsValues == {11500, 12000}

TeamRecs == [id : TeamIds, name : {"Team"}, wins : WinsValues, points : PointsValues]

\* a team list of the provider: ids are unique within a division
IsTeamList(ts) ==
    /\ ts \in [1..Len(ts) -> TeamRecs]
    /\ \A i, j \in 1..Len(ts) : i # j => ts[i].id # ts[j].id

Slots == {"QB", "RB", "WR", "TE", "FLEX", "RB/WR/TE", "D/ST", "K", "Bench", "IR", "OP"}

Breakdowns == {<<>>, << <<15, 25>> >>}

PlayerKinds == Slots \X Breakdowns

\* a roster side: the player at index i is named i
RosterOf(f) ==
    [i \in DOMAIN f |-> [fullName |-> i,
                         rosteredPosition |-> f[i][1],
                         projectedPointBreakdown |-> f[i][2]]]

Entry(owner, wins) == [owner |-> owner, wins |-> wins]

TeamsDataChoices ==
    { <<>>,
      [d \in Divisions |->
         IF d = "green"
         THEN (<<"1">> :> Entry("Al", <<"2019", "", "2021">>))
              @@ (<<"2">> :> Entry("Bo", <<"">>))
              @@ (<<"1", "0">> :> Entry("Cy", <<>>))
         ELSE (<<"1">> :> Entry("Di", <<"", "2020">>))] }

----------------------------------------------------------------------------
(* Request state shared by the specifications *)

NoRequest == [kind |-> "none", division |-> "", teamId |-> <<>>,
              homeTeamId |-> <<>>, awayTeamId |-> <<>>]

Sites == {"leagueInfo", "ldTeams", "boxscore", "teams"}

CallIds == Divisions \X Sites

IdleCalls == [c \in CallIds |-> [st |-> "idle", n |-> 0]]

IdleRequest ==
    /\ calls = IdleCalls
    /\ result = [c \in CallIds |-> <<>>]
    /\ error = [c \in CallIds |-> ""]
    /\ ld = [d \in Divisions |-> "none"]
    /\ ldData = [d \in Divisions |-> <<>>]
    /\ gm = [d \in Divisions |-> "none"]
    /\ gmData = [d \in Divisions |-> <<>>]
    /\ resp = <<>>

----------------------------------------------------------------------------
(* Specification of the Standings Builder as a transformation *)

InitStandings ==
    /\ teamsData \in TeamsDataChoices
    /\ req = NoRequest
    /\ pc = "idle"
    /\ IdleRequest
    /\ \E n \in 0..MaxTeams : \E ts \in [1..n -> TeamRecs], d \in Divisions :
          /\ IsTeamList(ts)
          /\ pin = [division |-> d, teams |-> ts]
    /\ pout = <<>>
    /\ pphase = "input"

BuildStandings ==
    /\ pphase = "input"
    /\ pout' = Standings(pin.division, pin.teams)
    /\ pphase' = "standings"
    /\ UNCHANGED <<teamsData, pin, reqVars>>

SpecStandings == InitStandings /\ [][BuildStandings]_vars

----------------------------------------------------------------------------
(* Specification of the two roster formatters as transformations *)

InitFormat ==
    /\ teamsData = <<>>
    /\ req = NoRequest
    /\ pc = "idle"
    /\ IdleRequest
    /\ \E n \in 0..MaxRoster : \E f \in [1..n -> PlayerKinds] : pin = RosterOf(f)
    /\ pout = <<>>
    /\ pphase = "input"

FormatForRoster ==
    /\ pphase = "input"
    /\ pout' = FormattedRoster(pin)
    /\ pphase' = "roster"
    /\ UNCHANGED <<teamsData, pin, reqVars>>

FormatForDetail ==
    /\ pphase = "input"
    /\ pout' = FormatRoster(pin)
    /\ pphase' = "detail"
    /\ UNCHANGED <<teamsData, pin, reqVars>>

NextFormat == FormatForRoster \/ FormatForDetail

SpecFormat == InitFormat /\ [][NextFormat]_vars

----------------------------------------------------------------------------
(* Provider answers and route parameters of the request specification *)

LeagueInfos ==
    {[name |-> "Hogan", currentMatchupPeriodId |-> 3, currentScoringPeriodId |-> 3]}

Team(id, name, wins, points) == [id |-> id, name |-> name, wins |-> wins, points |-> points]

TeamsResults ==
    { <<Team(1, "Aces", 8, 12000), Team(10, "Bolts", 8, 11500)>>,
      <<Team(10, "Bolts", 7, 11500)>> }

SideA == RosterOf(<< <<"Bench", <<>> >>, <<"K", << <<15, 25>> >> >>, <<"QB", <<>> >> >>)

SideB == RosterOf(<< <<"IR", <<>> >>, <<"OP", <<>> >>, <<"RB", << <<10>> >> >> >>)

Box(home, away, homeRoster, awayRoster) ==
    [homeTeamId |-> home, awayTeamId |-> away, homeScore |-> 900, awayScore |-> 850,
     homeRoster |-> homeRoster, awayRoster |-> awayRoster]

BoxResults ==
    { <<>>,
      <<Box(1, 10, SideA, SideB)>>,
      <<Box(11, 2, SideB, SideB), Box(10, 1, SideB, SideA)>> }

ErrorMessages == {"ETIMEDOUT", "Unauthorized"}

DivisionTokens == {"green", "white", "Green"}

IdChars == {"0", "1", "a"}

----------------------------------------------------------------------------
(* Responses *)

\* res.status(500).json({ error: error.message })
FailureGeneric(message) == [status |-> 500, error |-> "Internal Server Error", body |-> <<>>]

Failure(message) == [status |-> 500, error |-> message, body |-> <<>>]

InvalidDivision == [status |-> 400, error |-> "Invalid division", body |-> <<>>]

NotFound(text) == [status |-> 404, error |-> text, body |-> <<>>]

Ok(payload) == [status |-> 200, error |-> "", body |-> <<payload>>]

----------------------------------------------------------------------------
(* What the handlers compute from the provider's answers *)

Min(S) == CHOOSE x \in S : \A y \in S : x <= y

Max(S) == CHOOSE x \in S : \A y \in S : x >= y

\* x?.name || 'Unknown' for the team records at the given indices
NameOr(teams, hits, pick) ==
    IF hits = {} \/ teams[pick].name = "" THEN "Unknown" ELSE teams[pick].name

\* lines 76-80
LeagueData(division, leagueInfo, teams) ==
    [name |-> leagueInfo.name,
     currentWeek |-> leagueInfo.currentMatchupPeriodId,
     standings |-> Standings(division, teams)]

\* lines 97-112: teamMap keeps the last team of an id
Matchups(scoreboard, teams) ==
    LET hits(id) == {i \in 1..Len(teams) : teams[i].id = id}
        nameOf(id) == NameOr(teams, hits(id), IF hits(id) = {} THEN 0 ELSE Max(hits(id)))
    IN [k \in 1..Len(scoreboard) |->
          [homeTeam |-> nameOf(scoreboard[k].homeTeamId),
           homeTeamId |-> scoreboard[k].homeTeamId,
           homeScore |-> scoreboard[k].homeScore,
           awayTeam |-> nameOf(scoreboard[k].awayTeamId),
           awayTeamId |-> scoreboard[k].awayTeamId,
           awayScore |-> scoreboard[k].awayScore]]

BoxHasTeamAsHome(box, id) == StrictEquals(box.homeTeamId, id)

\* lines 179-181
BoxHasTeam(box, id) == StrictEquals(box.homeTeamId, id) \/ StrictEquals(box.awayTeamId, id)

\* lines 245-248
BoxHasPair(box, home, away) ==
    \/ StrictEquals(box.homeTeamId, home) /\ StrictEquals(box.awayTeamId, away)
    \/ StrictEquals(box.homeTeamId, away) /\ StrictEquals(box.awayTeamId, home)

\* lines 179-215
RosterResponse(division, teamId, boxscores, teams) ==
    LET id == ParseInt(teamId)
        found == {i \in 1..Len(boxscores) : BoxHasTeam(boxscores[i], id)}
    IN IF found = {} THEN NotFound("Team not found")
       ELSE LET teamBoxscore == boxscores[Min(found)]
                hits == {i \in 1..Len(teams) : StrictEquals(teams[i].id, id)}
                ownerInfo == OwnerInfo(division, StringToString(teamId))
                isHome == StrictEquals(teamBoxscore.homeTeamId, id)
                roster == IF isHome THEN teamBoxscore.homeRoster
                          ELSE teamBoxscore.awayRoster
            IN Ok([teamId |-> id.val,
                   teamName |-> NameOr(teams, hits, IF hits = {} THEN 0 ELSE Min(hits)),
                   owner |-> OwnerOf(ownerInfo),
                   championships |-> ChampionshipsOf(ownerInfo),
                   roster |-> FormattedRoster(roster)])

\* lines 245-290
MatchupResponse(division, homeTeamId, awayTeamId, boxscores, teams) ==
    LET home == ParseInt(homeTeamId)
        away == ParseInt(awayTeamId)
        found == {i \in 1..Len(boxscores) : BoxHasPair(boxscores[i], home, away)}
    IN IF found = {} THEN NotFound("Matchup not found")
       ELSE LET matchup == boxscores[Min(found)]
                hits(id) == {i \in 1..Len(teams) : teams[i].id = id}
                nameOf(id) == NameOr(teams, hits(id), IF hits(id) = {} THEN 0 ELSE Min(hits(id)))
                homeInfo == OwnerInfo(division, NumberToString(matchup.homeTeamId))
                awayInfo == OwnerInfo(division, NumberToString(matchup.awayTeamId))
            IN Ok([homeTeam |-> nameOf(matchup.homeTeamId),
                   homeOwner |-> OwnerOf(homeInfo),
                   homeScore |-> matchup.homeScore,
                   homeRoster |-> FormatRoster(matchup.homeRoster),
                   homeChampionships |-> ChampionshipsOf(homeInfo),
                   awayTeam |-> nameOf(matchup.awayTeamId),
                   awayOwner |-> OwnerOf(awayInfo),
                   awayScore |-> matchup.awayScore,
                   awayChampionships |-> ChampionshipsOf(awayInfo),
                   awayRoster |-> FormatRoster(matchup.awayRoster)])

\* lines 127-130 and 149
CombinedResponse(kind, division, data, matchups) ==
    LET one(d) == [name |-> data[d].name, currentWeek |-> data[d].currentWeek,
                   standings |-> data[d].standings, matchups |-> matchups[d]]
    IN IF kind = "summary" THEN Ok([green |-> one("green"), white |-> one("white")])
       ELSE Ok(one(division))

----------------------------------------------------------------------------
(* Provider calls *)

AcceptsAnyDivision(division) == TRUE

\* ['green', 'white'].includes(division)
ValidDivision(division) == division \in {"green", "white"}

\* division === 'green' ? greenClient : whiteClient
ClientOf(division) == IF division = "green" THEN "green" ELSE "white"

\* the clients a request to the summary or league route works with
ClientsOf(r) == IF r.kind = "summary" THEN Divisions ELSE {ClientOf(r.division)}

Issue(cs, c) == [cs EXCEPT ![c] = [st |-> "pending", n |-> @.n + 1]]

Settle(cs, c, st) == [cs EXCEPT ![c].st = st]

Pending(c) == calls[c].st = "pending"

IssueBoxscoreOnly(cs, d) == Issue(cs, <<d, "boxscore">>)

\* the argument list of Promise.all, lines 85-95, 167-177, 233-243: both calls
\* are made while the array is built
IssuePair(cs, d) == Issue(Issue(cs, <<d, "boxscore">>), <<d, "teams">>)

\* lines 122-125: getMatchups for green, then for white
IssuePairs(cs, ds) ==
    LET a == IF "green" \in ds THEN IssuePair(cs, "green") ELSE cs
    IN IF "white" \in ds THEN IssuePair(a, "white") ELSE a

\* the catch block of a handler: runs for the first rejection it awaits
Catch(message) ==
    IF pc # "done"
    THEN /\ resp' = Append(resp, Failure(message))
         /\ pc' = "done"
    ELSE UNCHANGED <<resp, pc>>

----------------------------------------------------------------------------
(* Route handlers up to their first await *)

\* lines 115-120
SummaryStart ==
    /\ req.kind = "summary" /\ pc = "start"
    /\ calls' = Issue(Issue(calls, <<"green", "leagueInfo">>), <<"white", "leagueInfo">>)
    /\ ld' = [d \in Divisions |-> "info"]
    /\ pc' = "leagueData"
    /\ UNCHANGED <<teamsData, req, result, error, ldData, gm, gmData, resp, pureVars>>

\* lines 137-146
LeagueStart ==
    /\ req.kind = "league" /\ pc = "start"
    /\ IF ~ValidDivision(req.division)
       THEN /\ resp' = Append(resp, InvalidDivision)
            /\ pc' = "done"
            /\ UNCHANGED <<calls, ld>>
       ELSE /\ calls' = Issue(calls, <<ClientOf(req.division), "leagueInfo">>)
            /\ ld' = [ld EXCEPT ![ClientOf(req.division)] = "info"]
            /\ pc' = "leagueData"
            /\ UNCHANGED resp
    /\ UNCHANGED <<teamsData, req, result, error, ldData, gm, gmData, pureVars>>

\* lines 156-165
RosterStart ==
    /\ req.kind = "roster" /\ pc = "start"
    /\ IF ~ValidDivision(req.division)
       THEN /\ resp' = Append(resp, InvalidDivision)
            /\ pc' = "done"
            /\ UNCHANGED calls
       ELSE /\ calls' = Issue(calls, <<ClientOf(req.division), "leagueInfo">>)
            /\ pc' = "info"
            /\ UNCHANGED resp
    /\ UNCHANGED <<teamsData, req, result, error, ld, ldData, gm, gmData, pureVars>>

\* lines 222-231
MatchupStart ==
    /\ req.kind = "matchup" /\ pc = "start"
    /\ IF ~ValidDivision(req.division)
       THEN /\ resp' = Append(resp, InvalidDivision)
            /\ pc' = "done"
            /\ UNCHANGED calls
       ELSE /\ calls' = Issue(calls, <<ClientOf(req.division), "leagueInfo">>)
            /\ pc' = "info"
            /\ UNCHANGED resp
    /\ UNCHANGED <<teamsData, req, result, error, ld, ldData, gm, gmData, pureVars>>

----------------------------------------------------------------------------
(* getLeagueData, lines 48-81: each step is a provider call settling and the
   code that runs on it *)

\* line 49 fulfils: lines 50-53 issue getTeamsAtWeek
LdInfoResolves ==
    \E d \in Divisions, info \in LeagueInfos :
        /\ ld[d] = "info" /\ Pending(<<d, "leagueInfo">>)
        /\ calls' = Issue(Settle(calls, <<d, "leagueInfo">>, "ok"), <<d, "ldTeams">>)
        /\ result' = [result EXCEPT ![<<d, "leagueInfo">>] = info]
        /\ ld' = [ld EXCEPT ![d] = "teams"]
        /\ UNCHANGED <<teamsData, req, pc, error, ldData, gm, gmData, resp, pureVars>>

\* line 49 rejects: getLeagueData rejects, the handler's catch runs
LdInfoRejects ==
    \E d \in Divisions, message \in ErrorMessages :
        /\ ld[d] = "info" /\ Pending(<<d, "leagueInfo">>)
        /\ calls' = Settle(calls, <<d, "leagueInfo">>, "fail")
        /\ error' = [error EXCEPT ![<<d, "leagueInfo">>] = message]
        /\ ld' = [ld EXCEPT ![d] = "rejected"]
        /\ Catch(message)
        /\ UNCHANGED <<teamsData, req, result, ldData, gm, gmData, pureVars>>

\* line 50 fulfils: lines 55-80 build the standings and getLeagueData resolves;
\* once every getLeagueData of the handler has, lines 122-125 / 147 call getMatchups
LdTeamsResolves ==
    \E d \in Divisions, teams \in TeamsResults :
        /\ ld[d] = "teams" /\ Pending(<<d, "ldTeams">>)
        /\ result' = [result EXCEPT ![<<d, "ldTeams">>] = teams]
        /\ ld' = [ld EXCEPT ![d] = "resolved"]
        /\ ldData' = [ldData EXCEPT
                        ![d] = LeagueData(d, result[<<d, "leagueInfo">>], teams)]
        /\ IF pc = "leagueData" /\ \A e \in ClientsOf(req) : ld'[e] = "resolved"
           THEN /\ calls' = IssuePairs(Settle(calls, <<d, "ldTeams">>, "ok"), ClientsOf(req))
                /\ gm' = [e \in Divisions |-> IF e \in ClientsOf(req) THEN "pair" ELSE gm[e]]
                /\ pc' = "matchups"
           ELSE /\ calls' = Settle(calls, <<d, "ldTeams">>, "ok")
                /\ UNCHANGED <<gm, pc>>
        /\ UNCHANGED <<teamsData, req, error, gmData, resp, pureVars>>

\* line 50 rejects
LdTeamsRejects ==
    \E d \in Divisions, message \in ErrorMessages :
        /\ ld[d] = "teams" /\ Pending(<<d, "ldTeams">>)
        /\ calls' = Settle(calls, <<d, "ldTeams">>, "fail")
        /\ error' = [error EXCEPT ![<<d, "ldTeams">>] = message]
        /\ ld' = [ld EXCEPT ![d] = "rejected"]
        /\ Catch(message)
        /\ UNCHANGED <<teamsData, req, result, ldData, gm, gmData, pureVars>>

----------------------------------------------------------------------------
(* The roster and matchup handlers' own getLeagueInfo, lines 165 and 231 *)

InfoResolves ==
    \E info \in LeagueInfos :
        LET d == ClientOf(req.division) IN
        /\ pc = "info" /\ Pending(<<d, "leagueInfo">>)
        /\ calls' = IssuePair(Settle(calls, <<d, "leagueInfo">>, "ok"), d)
        /\ result' = [result EXCEPT ![<<d, "leagueInfo">>] = info]
        /\ pc' = "pair"
        /\ UNCHANGED <<teamsData, req, error, ld, ldData, gm, gmData, resp, pureVars>>

InfoRejects ==
    \E message \in ErrorMessages :
        LET d == ClientOf(req.division) IN
        /\ pc = "info" /\ Pending(<<d, "leagueInfo">>)
        /\ calls' = Settle(calls, <<d, "leagueInfo">>, "fail")
        /\ error' = [error EXCEPT ![<<d, "leagueInfo">>] = message]
        /\ Catch(message)
        /\ UNCHANGED <<teamsData, req, result, ld, ldData, gm, gmData, pureVars>>

----------------------------------------------------------------------------
(* Promise.all of getBoxscoreForWeek and getTeamsAtWeek *)

\* both calls fulfilled: the code after the await runs
PairJoined(d, boxscores, teams) ==
    IF req.kind \in {"summary", "league"}
    THEN /\ gm' = [gm EXCEPT ![d] = "resolved"]
         /\ gmData' = [gmData EXCEPT ![d] = Matchups(boxscores, teams)]
         /\ IF pc = "matchups" /\ \A e \in ClientsOf(req) : gm'[e] = "resolved"
            THEN /\ resp' = Append(resp, CombinedResponse(req.kind, req.division,
                                                          ldData, gmData'))
                 /\ pc' = "done"
            ELSE UNCHANGED <<resp, pc>>
    ELSE /\ resp' = Append(resp,
                IF req.kind = "roster"
                THEN RosterResponse(req.division, req.teamId, boxscores, teams)
                ELSE MatchupResponse(req.division, req.homeTeamId, req.awayTeamId,
                                     boxscores, teams))
         /\ pc' = "done"
         /\ UNCHANGED <<gm, gmData>>

\* one call rejected: Promise.all rejects on the first rejection
PairRejected(d, message) ==
    /\ gm' = [gm EXCEPT ![d] = IF @ = "pair" THEN "rejected" ELSE @]
    /\ Catch(message)
    /\ UNCHANGED gmData

BoxscoreResolves ==
    \E d \in Divisions, boxscores \in BoxResults :
        /\ Pending(<<d, "boxscore">>)
        /\ calls' = Settle(calls, <<d, "boxscore">>, "ok")
        /\ result' = [result EXCEPT ![<<d, "boxscore">>] = boxscores]
        /\ IF calls[<<d, "teams">>].st = "ok"
           THEN PairJoined(d, boxscores, result[<<d, "teams">>])
           ELSE UNCHANGED <<gm, gmData, resp, pc>>
        /\ UNCHANGED <<teamsData, req, error, ld, ldData, pureVars>>

BoxscoreRejects ==
    \E d \in Divisions, message \in ErrorMessages :
        /\ Pending(<<d, "boxscore">>)
        /\ calls' = Settle(calls, <<d, "boxscore">>, "fail")
        /\ error' = [error EXCEPT ![<<d, "boxscore">>] = message]
        /\ PairRejected(d, message)
        /\ UNCHANGED <<teamsData, req, result, ld, ldData, pureVars>>

TeamsResolves ==
    \E d \in Divisions, teams \in TeamsResults :
        /\ Pending(<<d, "teams">>)
        /\ calls' = Settle(calls, <<d, "teams">>, "ok")
        /\ result' = [result EXCEPT ![<<d, "teams">>] = teams]
        /\ IF calls[<<d, "boxscore">>].st = "ok"
           THEN PairJoined(d, result[<<d, "boxscore">>], teams)
           ELSE UNCHANGED <<gm, gmData, resp, pc>>
        /\ UNCHANGED <<teamsData, req, error, ld, ldData, pureVars>>

TeamsRejects ==
    \E d \in Divisions, message \in ErrorMessages :
        /\ Pending(<<d, "teams">>)
        /\ calls' = Settle(calls, <<d, "teams">>, "fail")
        /\ error' = [error EXCEPT ![<<d, "teams">>] = message]
        /\ PairRejected(d, message)
        /\ UNCHANGED <<teamsData, req, result, ld, ldData, pureVars>>

----------------------------------------------------------------------------
(* Specification of one request *)

Init ==
    /\ teamsData \in TeamsDataChoices
    /\ \/ req = [NoRequest EXCEPT !.kind = "summary"]
       \/ \E t \in DivisionTokens : req = [NoRequest EXCEPT !.kind = "league", !.division = t]
       \/ \E t \in DivisionTokens, n \in 1..MaxIdLen : \E id \in [1..n -> IdChars] :
             req = [NoRequest EXCEPT !.kind = "roster", !.division = t, !.teamId = id]
       \/ \E t \in DivisionTokens, n, m \in 1..MaxIdLen :
             \E h \in [1..n -> IdChars], a \in [1..m -> IdChars] :
                req = [NoRequest EXCEPT !.kind = "matchup", !.division = t,
                                        !.homeTeamId = h, !.awayTeamId = a]
    /\ pc = "start"
    /\ IdleRequest
    /\ pin = <<>>
    /\ pout = <<>>
    /\ pphase = "none"

Next ==
    \/ SummaryStart
    \/ LeagueStart
    \/ RosterStart
    \/ MatchupStart
    \/ LdInfoResolves
    \/ LdInfoRejects
    \/ LdTeamsResolves
    \/ LdTeamsRejects
    \/ InfoResolves
    \/ InfoRejects
    \/ BoxscoreResolves
    \/ BoxscoreRejects
    \/ TeamsResolves
    \/ TeamsRejects

Spec == Init /\ [][Next]_vars

----------------------------------------------------------------------------
(* Properties of the transformations *)

Positions(seq, name) == {j \in 1..Len(seq) : seq[j].name = name}

IdPositions(seq, id) == {j \in 1..Len(seq) : seq[j].id = id}

PosOfId(seq, id) == CHOOSE j \in 1..Len(seq) : seq[j].id = id

PosOfName(seq, name) == CHOOSE j \in 1..Len(seq) : seq[j].name = name

\* C1: the standings are a permutation of the input teams, ordered by wins
\* descending, then points descending; teams equal in both keep input order.
C1_StandingsOrdered ==
    pphase = "standings" =>
        LET ts == pin.teams IN
        /\ Len(pout) = Len(ts)
        /\ \A i \in 1..Len(ts) :
              /\ Cardinality(IdPositions(pout, ts[i].id)) = 1
              /\ pout[PosOfId(pout, ts[i].id)].wins = ts[i].wins
              /\ pout[PosOfId(pout, ts[i].id)].points = ts[i].points
              /\ pout[PosOfId(pout, ts[i].id)].name = ts[i].name
        /\ \A k \in 1..(Len(pout) - 1) :
              \/ pout[k].wins > pout[k + 1].wins
              \/ pout[k].wins = pout[k + 1].wins /\ pout[k].points >= pout[k + 1].points
        /\ \A i, j \in 1..Len(ts) :
              (i < j /\ ts[i].wins = ts[j].wins /\ ts[i].points = ts[j].points)
                  => PosOfId(pout, ts[i].id) < PosOfId(pout, ts[j].id)

\* a list where a later team outranks an earlier one, and two teams tie in both keys
C1_Witness ==
    /\ pphase = "standings"
    /\ Len(pout) = MaxTeams
    /\ \E i, j \in 1..Len(pin.teams) :
          i < j /\ PosOfId(pout, pin.teams[j].id) < PosOfId(pout, pin.teams[i].id)
    /\ \E i, j \in 1..Len(pin.teams) :
          i < j /\ pin.teams[i].wins = pin.teams[j].wins
                /\ pin.teams[i].points = pin.teams[j].points

RECURSIVE WithoutEmpty(_)
WithoutEmpty(years) ==
    IF years = <<>> THEN <<>>
    ELSE IF Head(years) = "" THEN WithoutEmpty(Tail(years))
    ELSE <<Head(years)>> \o WithoutEmpty(Tail(years))

HasEntry(division, id) ==
    division \in DOMAIN teamsData /\ NumberToString(id) \in DOMAIN teamsData[division]

\* C2: every input team yields exactly one standings record; without a registry
\* entry it has owner "" and no championships, with one it has the entry's owner
\* and the entry's championship years less the empty strings, in order.
C2_OwnershipJoinTotal ==
    pphase = "standings" =>
        /\ Len(pout) = Len(pin.teams)
        /\ \A i \in 1..Len(pin.teams) :
              LET id == pin.teams[i].id
                  recs == IdPositions(pout, id)
              IN /\ Cardinality(recs) = 1
                 /\ \A j \in recs :
                      IF HasEntry(pin.division, id)
                      THEN LET e == teamsData[pin.division][NumberToString(id)]
                           IN /\ pout[j].owner = e.owner
                              /\ pout[j].championships = WithoutEmpty(e.wins)
                      ELSE /\ pout[j].owner = ""
                           /\ pout[j].championships = <<>>

\* a list with a registered team whose years hold an empty string, and an unregistered one
C2_Witness ==
    /\ pphase = "standings"
    /\ \E i \in 1..Len(pin.teams) :
          /\ HasEntry(pin.division, pin.teams[i].id)
          /\ \E y \in 1..Len(teamsData[pin.division][NumberToString(pin.teams[i].id)].wins) :
                teamsData[pin.division][NumberToString(pin.teams[i].id)].wins[y] = ""
          /\ pout[PosOfId(pout, pin.teams[i].id)].championships # <<>>
    /\ \E i \in 1..Len(pin.teams) : ~HasEntry(pin.division, pin.teams[i].id)

SlotPriority(slot) ==
    CASE slot = "QB" -> 1 [] slot = "RB" -> 2 [] slot = "WR" -> 3 [] slot = "TE" -> 4
      [] slot \in {"FLEX", "RB/WR/TE"} -> 5 [] slot = "D/ST" -> 6 [] slot = "K" -> 7
      [] slot = "Bench" -> 99 [] slot = "IR" -> 100 [] OTHER -> 99

Reserve(slot) == slot \in {"Bench", "IR"}

\* C3: the formatted roster holds every input player once, starters before
\* Bench/IR players, slot priority non-decreasing within each part, and players
\* of equal priority within a part in provider order.
C3_RosterPartitioned ==
    pphase = "roster" =>
        /\ Len(pout) = Len(pin)
        /\ \A i \in 1..Len(pin) :
              /\ Cardinality(Positions(pout, pin[i].fullName)) = 1
              /\ pout[PosOfName(pout, pin[i].fullName)].slotPosition = pin[i].rosteredPosition
              /\ pout[PosOfName(pout, pin[i].fullName)].isStarter
                     = ~Reserve(pin[i].rosteredPosition)
        /\ \A k \in 1..(Len(pout) - 1) :
              /\ Reserve(pout[k].slotPosition) => Reserve(pout[k + 1].slotPosition)
              /\ Reserve(pout[k].slotPosition) = Reserve(pout[k + 1].slotPosition)
                    => SlotPriority(pout[k].slotPosition) <= SlotPriority(pout[k + 1].slotPosition)
        /\ \A i, j \in 1..Len(pin) :
              (/\ i < j
               /\ Reserve(pin[i].rosteredPosition) = Reserve(pin[j].rosteredPosition)
               /\ SlotPriority(pin[i].rosteredPosition) = SlotPriority(pin[j].rosteredPosition))
                  => PosOfName(pout, pin[i].fullName) < PosOfName(pout, pin[j].fullName)

\* a Bench player listed first, then an unrecognised starting slot, then a QB
C3_Witness ==
    /\ pphase = "roster"
    /\ Len(pin) >= 3
    /\ pin[1].rosteredPosition = "Bench"
    /\ pin[2].rosteredPosition = "OP"
    /\ pin[3].rosteredPosition = "QB"
    /\ pout[1].name = 3

\* C4: the detail roster has no Bench or IR entry, holds exactly the input
\* players in other slots, each once, in non-decreasing slot priority, and
\* projected is the sum of the breakdown's values, 0 without a breakdown.
C4_DetailStartersOnly ==
    pphase = "detail" =>
        /\ \A k \in 1..Len(pout) : pout[k].position \notin {"Bench", "IR"}
        /\ \A i \in 1..Len(pin) :
              IF Reserve(pin[i].rosteredPosition)
              THEN Positions(pout, pin[i].fullName) = {}
              ELSE /\ Cardinality(Positions(pout, pin[i].fullName)) = 1
                   /\ LET e == pout[PosOfName(pout, pin[i].fullName)]
                      IN /\ e.position = pin[i].rosteredPosition
                         /\ e.projected =
                               IF pin[i].projectedPointBreakdown = <<>> THEN 0
                               ELSE SumValues(pin[i].projectedPointBreakdown[1])
        /\ \A k \in 1..Len(pout) : \E i \in 1..Len(pin) : pin[i].fullName = pout[k].name
        /\ \A k \in 1..(Len(pout) - 1) :
              SlotPriority(pout[k].position) <= SlotPriority(pout[k + 1].position)

\* an IR player and a Bench player dropped, a K with a breakdown moved behind a QB without
C4_Witness ==
    /\ pphase = "detail"
    /\ Len(pin) >= 3
    /\ pin[1].rosteredPosition = "IR"
    /\ pin[2].rosteredPosition = "K"
    /\ pin[2].projectedPointBreakdown # <<>>
    /\ pin[3].rosteredPosition = "QB"
    /\ pin[3].projectedPointBreakdown = <<>>
    /\ Len(pout) = 2
    /\ pout[1].projected = 0
    /\ pout[2].projected = 40

----------------------------------------------------------------------------
(* Properties of a request *)

Responded == resp # <<>>

Status == resp[1].status

Failed(c) == calls[c].st = "fail"

NoCallIssued == \A c \in CallIds : calls[c].n = 0

\* C5: on the league, roster and matchup routes a division other than "green"
\* or "white" is answered with 400 and no provider call is ever issued.
C5_InvalidDivisionNoUpstream ==
    (req.kind \in {"league", "roster", "matchup"} /\ req.division \notin {"green", "white"})
        => /\ NoCallIssued
           /\ pc \in {"start", "done"}
           /\ pc = "start" => resp = <<>>
           /\ pc = "done" => Len(resp) = 1 /\ Status = 400 /\ resp[1].body = <<>>

\* the matchup route has answered a request for division "Green"
C5_Witness ==
    /\ req.kind = "matchup"
    /\ req.division = "Green"
    /\ pc = "done"
    /\ Responded
    /\ Status = 400

NonNumeric(id) == ParseInt(id).nan

MalformedTeamId ==
    \/ req.kind = "roster" /\ NonNumeric(req.teamId)
    \/ req.kind = "matchup" /\ (NonNumeric(req.homeTeamId) \/ NonNumeric(req.awayTeamId))

\* C6: on the roster and matchup routes with a valid division, a non-numeric
\* team id is answered with a validation error before any provider call.
C6_MalformedIdRejected ==
    (req.division \in {"green", "white"} /\ MalformedTeamId)
        => /\ NoCallIssued
           /\ Responded => Status = 400

FetchSites == {"leagueInfo", "boxscore", "teams"}

AllFetchedOk == \A site \in FetchSites : calls[<<req.division, site>>].st = "ok"

SomeFetchFailed == \E site \in FetchSites : Failed(<<req.division, site>>)

Holds(box, id) == ~id.nan /\ (box.homeTeamId = id.val \/ box.awayTeamId = id.val)

HoldsPair(box, h, a) ==
    /\ ~h.nan /\ ~a.nan
    /\ {<<box.homeTeamId, box.awayTeamId>>, <<box.awayTeamId, box.homeTeamId>>}
          \cap {<<h.val, a.val>>} # {}

RequestedAbsent ==
    LET boxes == result[<<req.division, "boxscore">>]
    IN \A i \in 1..Len(boxes) :
          IF req.kind = "roster" THEN ~Holds(boxes[i], ParseInt(req.teamId))
          ELSE ~HoldsPair(boxes[i], ParseInt(req.homeTeamId), ParseInt(req.awayTeamId))

\* C7: on the roster and matchup routes with a valid division the answer is 404
\* exactly when all fetches succeeded and no fetched boxscore holds the requested
\* team (pair, in either order); a failed fetch never gives 404, and there is
\* one answer only.
C7_NotFoundIffAbsent ==
    (req.kind \in {"roster", "matchup"} /\ req.division \in {"green", "white"} /\ Responded)
        => /\ Len(resp) = 1
           /\ (Status = 404) <=> (AllFetchedOk /\ RequestedAbsent)
           /\ SomeFetchFailed => Status # 404
           /\ Status = 404 => resp[1].body = <<>>

\* the matchup route answers 404 for two numeric ids though boxscores came back
C7_Witness ==
    /\ req.kind = "matchup"
    /\ req.division = "green"
    /\ Responded
    /\ Status = 404
    /\ ~NonNumeric(req.homeTeamId) /\ ~NonNumeric(req.awayTeamId)
    /\ Len(result[<<"green", "boxscore">>]) = 2

\* C8: once a provider call of the request has failed, the request has exactly
\* one response: 500 with the message of a failed call and no data; a failed
\* call was issued once.
C8_UpstreamFailureIsGeneric ==
    (\E c \in CallIds : Failed(c))
        => /\ Len(resp) = 1
           /\ Status = 500
           /\ resp[1].body = <<>>
           /\ resp[1].error \in {error[c] : c \in {x \in CallIds : Failed(x)}}
           /\ \A c \in CallIds : Failed(c) => calls[c].n = 1

\* summary: white's league data is complete, green's getLeagueInfo failed
C8_Witness ==
    /\ req.kind = "summary"
    /\ Failed(<<"green", "leagueInfo">>)
    /\ ld["white"] = "resolved"
    /\ Responded
    /\ Status = 500

\* C9: the boxscore and teams fetches of a pair are issued together, so neither
\* is still unissued when the other is in flight or complete, and a success
\* response is sent only when both fetches of every client involved succeeded.
C9_PairIssuedTogether ==
    /\ \A d \in Divisions : calls[<<d, "boxscore">>].n = calls[<<d, "teams">>].n
    /\ (Responded /\ Status = 200)
          => \A d \in ClientsOf(req) :
                /\ calls[<<d, "boxscore">>].st = "ok"
                /\ calls[<<d, "teams">>].st = "ok"

\* summary answered 200: four paired fetches completed
C9_Witness ==
    /\ req.kind = "summary"
    /\ Responded
    /\ Status = 200
    /\ Len(resp[1].body[1].green.matchups) = 2

\* C10: a successful roster response carries the registry's owner and
\* championships for the integer teamId it returns, the empty defaults only
\* when the registry has no entry for that id.
C10_OwnerOfReturnedTeamId ==
    (req.kind = "roster" /\ Responded /\ Status = 200)
        => LET body == resp[1].body[1] IN
           IF HasEntry(req.division, body.teamId)
           THEN LET e == teamsData[req.division][NumberToString(body.teamId)]
                IN body.owner = e.owner /\ body.championships = WithoutEmpty(e.wins)
           ELSE body.owner = "" /\ body.championships = <<>>

====
